---- MODULE Spec2Model ----
(***************************************************************************)
(* Model of static/js/products/price_calc.js: the debounced price lookup   *)
(* bound to a product page.  One action per event-loop task: the           *)
(* DOMContentLoaded handler, the input/change/click events, the debounce   *)
(* timer callback, and the continuations of updatePrice after each await   *)
(* (fetch settling, resp.json() settling).  Every handler runs to          *)
(* completion and takes no time; time passes only in Tick.                 *)
(*                                                                         *)
(* Strings of the page: the quantity field is a sequence of one-character  *)
(* strings so that parseFloat can be computed on it.  The two non-ASCII    *)
(* literals of the source are written by their code points.                *)
(***************************************************************************)
EXTENDS Integers, Sequences, FiniteSets, TLC

(* ------------------------------------------------------------------ *)
(* Bounds of the model                                                 *)
(* ------------------------------------------------------------------ *)

\* user events (input, change, click) in one behaviour
MaxEvents == 2

\* clock ticks per debounce delay: time advances in steps of Wait / TicksPerWait
TicksPerWait == 2

(* ------------------------------------------------------------------ *)
(* Program constants                                                   *)
(* ------------------------------------------------------------------ *)

\* debounce(updatePrice, 300)
Wait == 300

EmDash == "U+2014"
Rupee == "U+20B9"
CALCULATING == "Calculating..."
ENTER_VALID == "Enter valid quantity"
NETWORK_ERROR == "Network error"
ERROR_FALLBACK == "Error"

Step == Wait \div TicksPerWait

\* clocks saturate one step above Wait, so that the value Wait is exact
ClockCap == Wait + Step

(* ------------------------------------------------------------------ *)
(* parseFloat, on a sequence of characters                             *)
(* ------------------------------------------------------------------ *)

Digits == <<"0", "1", "2", "3", "4", "5", "6", "7", "8", "9">>

IsDigit(c) == \E d \in 1..10 : Digits[d] = c

DigitVal(c) == (CHOOSE d \in 1..10 : Digits[d] = c) - 1

IsWhite(c) == c \in {" ", "\t", "\n"}

RECURSIVE SkipWhite(_, _)
\* index of the first character at or after i that is not white space
SkipWhite(s, i) ==
  IF i <= Len(s) /\ IsWhite(s[i]) THEN SkipWhite(s, i + 1) ELSE i

RECURSIVE DigitsEnd(_, _)
\* index just after the run of digits that starts at i
DigitsEnd(s, i) ==
  IF i <= Len(s) /\ IsDigit(s[i]) THEN DigitsEnd(s, i + 1) ELSE i

RECURSIVE NumOf(_, _, _)
\* the decimal value of the digits s[i..j-1]
NumOf(s, i, j) ==
  IF j <= i THEN 0 ELSE 10 * NumOf(s, i, j - 1) + DigitVal(s[j - 1])

NaN == [nan |-> TRUE, neg |-> FALSE, num |-> 0, scale |-> 0]

RECURSIVE Pow10(_)
Pow10(n) == IF n = 0 THEN 1 ELSE 10 * Pow10(n - 1)

\* parseFloat(s): the longest prefix  ws* [+-] digits* [. digits*]  with at
\* least one digit, as the number (-1)^neg * num / 10^scale; NaN without a
\* digit.  (No value of the model holds an exponent or "Infinity".)
parseFloat(s) ==
  LET a == SkipWhite(s, 1)
      signed == a <= Len(s) /\ s[a] \in {"+", "-"}
      neg == signed /\ s[a] = "-"
      b == IF signed THEN a + 1 ELSE a
      c == DigitsEnd(s, b)
      dot == c <= Len(s) /\ s[c] = "."
      d == IF dot THEN DigitsEnd(s, c + 1) ELSE c
      nInt == c - b
      nFrac == IF dot THEN d - (c + 1) ELSE 0
  IN IF nInt + nFrac = 0 THEN NaN
     ELSE [nan |-> FALSE, neg |-> neg,
           num |-> NumOf(s, b, c) * Pow10(nFrac)
                   + (IF dot THEN NumOf(s, c + 1, d) ELSE 0),
           scale |-> nFrac]

\* x <= 0 for a result of parseFloat: false for NaN, true for -0
LeZero(x) == ~x.nan /\ (x.neg \/ x.num = 0)

\* the comparison written as < 0: a quantity of zero passes
FailsValidation_Strict(quantity) ==
  Len(quantity) = 0 \/ (LeZero(parseFloat(quantity)) /\ parseFloat(quantity).num # 0)

\* !quantity || parseFloat(quantity) <= 0
FailsValidation(quantity) == Len(quantity) = 0 \/ LeZero(parseFloat(quantity))

(* ------------------------------------------------------------------ *)
(* The response of the price service                                   *)
(* ------------------------------------------------------------------ *)

\* One value of the errors mapping: a string (elems holds it alone) or an
\* array of strings (elems holds its elements).
ErrStr(m) == [arr |-> FALSE, elems |-> <<m>>]
ErrArr(ms) == [arr |-> TRUE, elems |-> ms]

\* The data resp.json() resolves with: json = "null" (data is null) or
\* "object"; ok is the truthiness of data.ok; hasErrors the truthiness of data.errors; errors is
\* Object.values(data.errors), in iteration order.
MkBody(json, ok, total, hasErrors, errors) ==
  [json |-> json, ok |-> ok, total |-> total, hasErrors |-> hasErrors,
   errors |-> errors]

NullBody == MkBody("null", FALSE, 0, FALSE, <<>>)
OkBody(total) == MkBody("object", TRUE, total, FALSE, <<>>)
NotOkBody == MkBody("object", FALSE, 0, FALSE, <<>>)
ErrorsBody(errors) == MkBody("object", FALSE, 0, TRUE, errors)

Bodies ==
  { NullBody, OkBody(150), NotOkBody,
    ErrorsBody(<<ErrArr(<<"Must be positive", "Too large">>), ErrStr("No unit")>>),
    ErrorsBody(<<ErrStr("Invalid unit")>>),
    ErrorsBody(<<>>),
    ErrorsBody(<<ErrArr(<<>>)>>),
    ErrorsBody(<<ErrStr("")>>) }

\* A JavaScript value that is a string, null or undefined.
JsStr(m) == [def |-> TRUE, str |-> m]
JsUndefined == [def |-> FALSE, str |-> "undefined"]
JsNull == [def |-> FALSE, str |-> "null"]

\* firstErr || 'Error' for a firstErr that is not an array
OrError(v) == IF v.def /\ v.str # "" THEN v ELSE JsStr(ERROR_FALLBACK)

\* the last value of the mapping taken instead of the first
FirstMessage_Last(data) ==
  IF data.json = "object" /\ data.hasErrors
  THEN IF Len(data.errors) = 0 THEN OrError(JsUndefined)
       ELSE LET firstErr == data.errors[Len(data.errors)]
            IN IF firstErr.arr
               THEN IF Len(firstErr.elems) = 0 THEN JsUndefined
                    ELSE JsStr(firstErr.elems[1])
               ELSE OrError(JsStr(firstErr.elems[1]))
  ELSE OrError(JsNull)

\* const firstErr = data && data.errors ? Object.values(data.errors)[0] : null;
\* const msg = Array.isArray(firstErr) ? firstErr[0] : (firstErr || 'Error');
FirstMessage(data) ==
  IF data.json = "object" /\ data.hasErrors
  THEN IF Len(data.errors) = 0 THEN OrError(JsUndefined)
       ELSE LET firstErr == data.errors[1]
            IN IF firstErr.arr
               THEN IF Len(firstErr.elems) = 0 THEN JsUndefined
                    ELSE JsStr(firstErr.elems[1])
               ELSE OrError(JsStr(firstErr.elems[1]))
  ELSE OrError(JsNull)

\* element.textContent = v: null and undefined are written as the empty string
TextContent(v) == IF v.def THEN v.str ELSE ""

\* the total without the currency symbol
PriceText_NoSymbol(total) == ToString(total)

\* 'U+20B9' + data.total
PriceText(total) == Rupee \o ToString(total)

(* ------------------------------------------------------------------ *)
(* State                                                               *)
(* ------------------------------------------------------------------ *)

VARIABLES
  present,       \* the page holds the element pc-product-id
  loaded,        \* DOMContentLoaded has been handled
  listeners,     \* the events a handler of this script is bound to
  qty,           \* pc-quantity's value
  unit,          \* pc-unit's value
  resultText,    \* pc-total's textContent
  errorDisplay,  \* pc-error's style.display
  errorText,     \* pc-error's textContent
  t,             \* debounce's t: the handle of the last timer set, 0 = undefined
  timers,        \* the platform's pending timers: [id, left] (time to the deadline)
  nextId,        \* the handle the next setTimeout returns
  inflight,      \* the calls of updatePrice suspended in an await: [seq, stage]
  sent,          \* the fields of the last request handed to fetch
  nReq,          \* fetch calls made
  nEvents,       \* user events so far
  sinceCall,     \* time since the last call of debouncedUpdate, saturating
  burstLen,      \* calls of debouncedUpdate in the current burst
  burstRuns,     \* runs of updatePrice by the timer since the current burst began
  domRead,       \* a property of a page element has been read
  domWritten,    \* a property of a page element has been written
  lastWriter,    \* the request whose completion wrote the display last, 0 = none
  sinceRun       \* time since the timer last ran updatePrice, saturating at Wait;
                 \* NotTimed in the behaviours where it is not observed

vars ==
  <<present, loaded, listeners, qty, unit, resultText, errorDisplay, errorText,
    t, timers, nextId, inflight, sent, nReq, nEvents, sinceCall, burstLen,
    burstRuns, domRead, domWritten, lastWriter, sinceRun>>

page == <<present, loaded, listeners>>
form == <<qty, unit>>
display == <<resultText, errorDisplay, errorText>>
debouncer == <<t, timers, nextId>>
burst == <<sinceCall, burstLen, burstRuns>>
requests == <<inflight, sent, nReq>>

\* pc-product-id's value
productId == "42"

QtyValues ==
  { <<>>, <<"0">>, <<"-", "1">>, <<"0", ".", "5">>, <<"2">>, <<"a", "b", "c">> }

UnitValues == {"kg", "g"}

\* the fields callApi appends to the request body (lines 24-27)
Params(quantity, u) ==
  [product_id |-> productId, quantity |-> quantity, unit |-> u]

NoParams == [product_id |-> "", quantity |-> <<>>, unit |-> ""]

\* sinceRun where the time between timer runs is not observed
NotTimed == 0 - 1

\* the page and the script before DOMContentLoaded
Start ==
  /\ present \in BOOLEAN
  /\ loaded = FALSE
  /\ listeners = {}
  /\ qty \in {<<>>, <<"2">>}
  /\ unit = "kg"
  /\ resultText = ""
  /\ errorDisplay \in {"none", "block"}
  /\ errorText = ""
  /\ t = 0
  /\ timers = {}
  /\ nextId = 1
  /\ inflight = {}
  /\ sent = NoParams
  /\ nReq = 0
  /\ nEvents = 0
  /\ sinceCall = ClockCap
  /\ burstLen = 0
  /\ burstRuns = 0
  /\ domRead = FALSE
  /\ domWritten = FALSE
  /\ lastWriter = 0

Init == Start /\ sinceRun = NotTimed

\* the same, with the time between timer runs observed: no run so far
TimedInit == Start /\ sinceRun = Wait

(* ------------------------------------------------------------------ *)
(* debounce                                                            *)
(* ------------------------------------------------------------------ *)

\* a clearTimeout that removes nothing
ClearTimeout_Noop(pending, h) == pending

\* clearTimeout(h): the timer with handle h, if pending, is removed
ClearTimeout(pending, h) == {x \in pending : x.id # h}

\* debounce without clearTimeout(t): every call leaves its own timer pending
DebouncedCall_NoClear ==
  /\ timers' = timers \cup {[id |-> nextId, left |-> Wait]}
  /\ t' = nextId
  /\ nextId' = nextId + 1
  /\ sinceCall' = 0
  /\ IF burstLen = 0 \/ sinceCall >= Wait
     THEN burstLen' = 1 /\ burstRuns' = 0
     ELSE burstLen' = burstLen + 1 /\ burstRuns' = burstRuns

\* a debounce that keeps the pending timer and drops the later call
DebouncedCall_KeepFirst ==
  /\ IF timers = {}
     THEN /\ timers' = {[id |-> nextId, left |-> Wait]}
          /\ t' = nextId
          /\ nextId' = nextId + 1
     ELSE UNCHANGED debouncer
  /\ sinceCall' = 0
  /\ IF burstLen = 0 \/ sinceCall >= Wait
     THEN burstLen' = 1 /\ burstRuns' = 0
     ELSE burstLen' = burstLen + 1 /\ burstRuns' = burstRuns

\* the function debounce returns: clearTimeout(t); t = setTimeout(..., wait).
\* A call that comes Wait or more after the previous one begins a burst.
DebouncedCall ==
  /\ timers' = ClearTimeout(timers, t) \cup {[id |-> nextId, left |-> Wait]}
  /\ t' = nextId
  /\ nextId' = nextId + 1
  /\ sinceCall' = 0
  /\ IF burstLen = 0 \/ sinceCall >= Wait
     THEN burstLen' = 1 /\ burstRuns' = 0
     ELSE burstLen' = burstLen + 1 /\ burstRuns' = burstRuns

(* ------------------------------------------------------------------ *)
(* updatePrice                                                         *)
(* ------------------------------------------------------------------ *)

\* updatePrice without line 61: a quantity that fails validation leaves the
\* placeholder of line 55 in the total
UpdatePriceStart_NoPlaceholder ==
  /\ errorDisplay' = "none"
  /\ errorText' = errorText
  /\ domRead' = TRUE
  /\ domWritten' = TRUE
  /\ resultText' = CALCULATING
  /\ IF FailsValidation(qty)
     THEN UNCHANGED requests
     ELSE /\ inflight' = inflight \cup {[seq |-> nReq + 1, stage |-> "fetch"]}
          /\ sent' = Params(qty, unit)
          /\ nReq' = nReq + 1

\* updatePrice up to its first await (lines 54-65): the display is reset, the
\* form is read, and the request is made unless the quantity fails validation
UpdatePriceStart ==
  /\ errorDisplay' = "none"
  /\ errorText' = errorText
  /\ domRead' = TRUE
  /\ domWritten' = TRUE
  /\ IF FailsValidation(qty)
     THEN /\ resultText' = ENTER_VALID
          /\ UNCHANGED requests
     ELSE /\ resultText' = CALCULATING
          /\ inflight' = inflight \cup {[seq |-> nReq + 1, stage |-> "fetch"]}
          /\ sent' = Params(qty, unit)
          /\ nReq' = nReq + 1

\* the catch block without its last line: the total is left as it was
ShowNetworkError_KeepTotal ==
  /\ errorDisplay' = "block"
  /\ errorText' = NETWORK_ERROR
  /\ resultText' = resultText

\* the catch block (lines 80-85)
ShowNetworkError ==
  /\ errorDisplay' = "block"
  /\ errorText' = NETWORK_ERROR
  /\ resultText' = EmDash

\* the block for !resp.ok (lines 66-73)
ShowServiceError(data) ==
  /\ errorDisplay' = "block"
  /\ errorText' = TextContent(FirstMessage(data))
  /\ resultText' = EmDash

\* lines 75-79
ShowResult(data) ==
  /\ resultText' = IF data.ok THEN PriceText(data.total) ELSE EmDash
  /\ UNCHANGED <<errorDisplay, errorText>>

\* updatePrice from the await of callApi on (lines 65-85), given the response;
\* data.ok of a null data throws, and the catch block takes it
UpdatePriceFinish(statusOk, data) ==
  IF ~statusOk THEN ShowServiceError(data)
  ELSE IF data.json = "null" THEN ShowNetworkError
  ELSE ShowResult(data)

(* ------------------------------------------------------------------ *)
(* The tasks of the event loop                                         *)
(* ------------------------------------------------------------------ *)

\* a timer whose deadline has come runs before anything else is handled
NoTimerDue == \A x \in timers : x.left > 0

\* the handler without the return of line 44: it binds on any page
Load_NoReturn ==
  /\ ~loaded
  /\ loaded' = TRUE
  /\ listeners' = {"input", "change", "click"}
  /\ domRead' = TRUE
  /\ DebouncedCall
  /\ UNCHANGED <<present, form, display, requests, nEvents, domWritten,
                 lastWriter,
                 sinceRun>>

\* the handler calling updatePrice() itself at line 92, not debouncedUpdate()
Load_RunsAtOnce ==
  /\ ~loaded
  /\ loaded' = TRUE
  /\ IF present
     THEN /\ listeners' = {"input", "change", "click"}
          /\ UpdatePriceStart
          /\ UNCHANGED <<present, form, debouncer, burst, nEvents, lastWriter,
                 sinceRun>>
     ELSE UNCHANGED <<present, listeners, form, display, debouncer, requests,
                      nEvents, burst, domRead, domWritten, lastWriter,
                 sinceRun>>

\* the DOMContentLoaded handler (lines 42-93)
Load ==
  /\ ~loaded
  /\ loaded' = TRUE
  /\ IF present
     THEN /\ listeners' = {"input", "change", "click"}
          /\ domRead' = TRUE
          /\ DebouncedCall
          /\ UNCHANGED <<present, form, display, requests, nEvents,
                         domWritten, lastWriter,
                 sinceRun>>
     ELSE UNCHANGED <<present, listeners, form, display, debouncer, requests,
                      nEvents, burst, domRead, domWritten, lastWriter,
                 sinceRun>>

\* the user edits the quantity: an input event (line 89)
Input(q) ==
  /\ loaded /\ NoTimerDue /\ nEvents < MaxEvents
  /\ qty' = q
  /\ nEvents' = nEvents + 1
  /\ IF "input" \in listeners
     THEN DebouncedCall
     ELSE UNCHANGED <<debouncer, burst>>
  /\ UNCHANGED <<page, unit, display, requests, domRead, domWritten,
                 lastWriter,
                 sinceRun>>

\* the user selects a unit: a change event (line 90)
Change(u) ==
  /\ loaded /\ NoTimerDue /\ nEvents < MaxEvents
  /\ unit' = u
  /\ nEvents' = nEvents + 1
  /\ IF "change" \in listeners
     THEN DebouncedCall
     ELSE UNCHANGED <<debouncer, burst>>
  /\ UNCHANGED <<page, qty, display, requests, domRead, domWritten,
                 lastWriter,
                 sinceRun>>

\* the button bound to debouncedUpdate instead of updatePrice
Click_Debounced ==
  /\ loaded /\ NoTimerDue /\ nEvents < MaxEvents
  /\ nEvents' = nEvents + 1
  /\ IF "click" \in listeners
     THEN DebouncedCall
     ELSE UNCHANGED <<debouncer, burst>>
  /\ UNCHANGED <<page, form, display, requests, domRead, domWritten,
                 lastWriter,
                 sinceRun>>

\* a click that also cancels the pending timer
Click_Cancels ==
  /\ loaded /\ NoTimerDue /\ nEvents < MaxEvents
  /\ nEvents' = nEvents + 1
  /\ IF "click" \in listeners
     THEN /\ UpdatePriceStart
          /\ timers' = ClearTimeout(timers, t)
     ELSE UNCHANGED <<display, requests, domRead, domWritten, timers>>
  /\ UNCHANGED <<page, form, t, nextId, burst, lastWriter,
                 sinceRun>>

\* the user clicks pc-calc-btn (line 91)
Click ==
  /\ loaded /\ NoTimerDue /\ nEvents < MaxEvents
  /\ nEvents' = nEvents + 1
  /\ IF "click" \in listeners
     THEN UpdatePriceStart
     ELSE UNCHANGED <<display, requests, domRead, domWritten>>
  /\ UNCHANGED <<page, form, debouncer, burst, lastWriter,
                 sinceRun>>

\* the callback of setTimeout (line 19)
TimerFire ==
  \E x \in timers :
    /\ x.left = 0
    /\ timers' = timers \ {x}
    /\ UpdatePriceStart
    /\ burstRuns' = burstRuns + 1
    /\ sinceRun' = IF sinceRun = NotTimed THEN NotTimed ELSE 0
    /\ UNCHANGED <<page, form, t, nextId, nEvents, sinceCall, burstLen,
                   lastWriter>>

Later(c) == IF c + Step >= ClockCap THEN ClockCap ELSE c + Step

\* the clock of the last timer run: it stops at Wait, and stays off if off
LaterRun(c) ==
  IF c = NotTimed THEN NotTimed
  ELSE IF c + Step >= Wait THEN Wait ELSE c + Step

\* time passes, up to the next deadline
Tick ==
  /\ loaded /\ NoTimerDue
  /\ \A x \in timers : x.left >= Step
  /\ timers' = {[x EXCEPT !.left = @ - Step] : x \in timers}
  /\ sinceCall' = Later(sinceCall)
  /\ sinceRun' = LaterRun(sinceRun)
  /\ UNCHANGED <<page, form, display, t, nextId, requests, nEvents, burstLen,
                 burstRuns, domRead, domWritten, lastWriter>>

\* fetch resolves with a response (line 29); callApi goes on to resp.json()
FetchResolve(r) ==
  /\ r \in inflight /\ r.stage = "fetch"
  /\ inflight' = (inflight \ {r}) \cup {[r EXCEPT !.stage = "json"]}
  /\ UNCHANGED <<page, form, display, debouncer, sent, nReq, nEvents, burst,
                 domRead, domWritten, lastWriter,
                 sinceRun>>

\* what every completion of an awaiting updatePrice does besides the display
Complete(r) ==
  /\ inflight' = inflight \ {r}
  /\ lastWriter' = r.seq
  /\ domWritten' = TRUE
  /\ UNCHANGED <<page, form, debouncer, sent, nReq, nEvents, burst,
                 domRead, sinceRun>>

\* a retry: the rejected request is made again
FetchReject_Retry(r) ==
  /\ r \in inflight /\ r.stage = "fetch"
  /\ ShowNetworkError
  /\ inflight' = (inflight \ {r}) \cup {[seq |-> nReq + 1, stage |-> "fetch"]}
  /\ nReq' = nReq + 1
  /\ lastWriter' = r.seq
  /\ domWritten' = TRUE
  /\ UNCHANGED <<page, form, debouncer, sent, nEvents, burst, domRead,
                 sinceRun>>

\* fetch rejects: no response (line 29, caught at line 80)
FetchReject(r) ==
  /\ r \in inflight /\ r.stage = "fetch"
  /\ ShowNetworkError
  /\ Complete(r)

\* resp.json() rejects: the body is not JSON (line 38, caught at line 80)
JsonReject(r) ==
  /\ r \in inflight /\ r.stage = "json"
  /\ ShowNetworkError
  /\ Complete(r)

\* a sequence token: the response of a request that is no longer the newest
\* is dropped
JsonResolve_SeqToken(r, statusOk, data) ==
  /\ r \in inflight /\ r.stage = "json"
  /\ IF r.seq = nReq
     THEN UpdatePriceFinish(statusOk, data) /\ Complete(r)
     ELSE /\ inflight' = inflight \ {r}
          /\ UNCHANGED <<page, form, display, debouncer, sent, nReq, nEvents,
                         burst, domRead, domWritten, lastWriter,
                 sinceRun>>

\* resp.json() resolves with data (line 38); updatePrice renders it according
\* to resp.ok, the status of the response fetch resolved with
JsonResolve(r, statusOk, data) ==
  /\ r \in inflight /\ r.stage = "json"
  /\ UpdatePriceFinish(statusOk, data)
  /\ Complete(r)

Next ==
  \/ Load
  \/ \E q \in QtyValues : Input(q)
  \/ \E u \in UnitValues : Change(u)
  \/ Click
  \/ TimerFire
  \/ Tick
  \/ \E r \in inflight : FetchResolve(r)
  \/ \E r \in inflight : FetchReject(r)
  \/ \E r \in inflight : JsonReject(r)
  \/ \E r \in inflight, statusOk \in BOOLEAN, data \in Bodies :
       JsonResolve(r, statusOk, data)

Spec == Init /\ [][Next]_vars

\* the script with the time since the last timer run observed
TimedSpec == TimedInit /\ [][Next]_vars

\* The script while the price service does not answer (fetch has no timeout:
\* line 29 waits for as long as the platform does).  No completion of a
\* request reads or writes the form, the timers or the clock.
DebounceNext ==
  \/ Load
  \/ \E q \in QtyValues : Input(q)
  \/ \E u \in UnitValues : Change(u)
  \/ Click
  \/ TimerFire
  \/ Tick

\* time passes, and the platform runs a timer whose deadline has come
DebounceFairSpec ==
  Init /\ [][DebounceNext]_vars /\ WF_vars(Tick) /\ WF_vars(TimerFire)

(* ------------------------------------------------------------------ *)
(* Properties                                                          *)
(* ------------------------------------------------------------------ *)

\* a step in which updatePrice is called: by the timer, or by a click
TimerRun == TimerFire
ClickRun == Click /\ "click" \in listeners
RunStep == TimerRun \/ ClickRun

\* x > 0, for a result of parseFloat
GtZero(x) == ~x.nan /\ ~x.neg /\ x.num > 0

\* the quantity is empty or parses to a number <= 0
EmptyOrNonPositive(q) ==
  q = <<>> \/ (~parseFloat(q).nan /\ ~GtZero(parseFloat(q)))

\* the quantity parses to a number > 0
Positive(q) == q # <<>> /\ GtZero(parseFloat(q))

\* C1: a recalculation, by the timer or by a click, that reads a quantity
\* which is empty or parses to a number <= 0 makes no request, and leaves
\* "Enter valid quantity" as the total and the error area hidden.
C1_InvalidQuantityNoRequest ==
  [][RunStep /\ EmptyOrNonPositive(qty)
       => /\ nReq' = nReq
          /\ inflight' = inflight
          /\ sent' = sent
          /\ resultText' = "Enter valid quantity"
          /\ errorDisplay' = "none"]_vars

\* a recalculation has read the quantity "0" and nothing was requested
C1_Witness ==
  /\ qty = <<"0">>
  /\ resultText = "Enter valid quantity"
  /\ errorDisplay = "none"
  /\ domWritten
  /\ nReq = 0

\* the burst of calls of debouncedUpdate is going on / is over
BurstOpen == burstLen > 0 /\ sinceCall < Wait
BurstOver == burstLen > 0 /\ sinceCall >= Wait /\ NoTimerDue

\* C2: a burst of calls of debouncedUpdate, each less than Wait after the
\* previous one, runs updatePrice exactly once: not while the burst goes on,
\* exactly Wait after its last call, with one request (for a positive
\* quantity) that carries the quantity and unit the form holds at that
\* moment; and only a run of updatePrice makes a request.
C2_BurstRunsOnce ==
  /\ [](BurstOpen => burstRuns = 0)
  /\ [](BurstOver => burstRuns = 1)
  /\ [][TimerRun => /\ sinceCall = Wait
                    /\ Positive(qty) => /\ nReq' = nReq + 1
                                        /\ sent' = [product_id |-> productId,
                                                    quantity |-> qty,
                                                    unit |-> unit]]_vars
  /\ [][nReq' # nReq => RunStep]_vars

\* a burst of three calls (binding, a unit change, an edit) has run once and
\* requested once, with the last values of the form
C2_Witness ==
  /\ burstLen = 3
  /\ BurstOver
  /\ burstRuns = 1
  /\ nReq = 1
  /\ sent = [product_id |-> productId, quantity |-> <<"0", ".", "5">>,
             unit |-> "g"]

\* request r leaves the awaiting calls in this step
Gone(r) == \A x \in inflight' : x.seq # r.seq

\* the total shows the outcome of a response: a price or the dash
OutcomeShown(text) == text \notin {"Calculating...", "Enter valid quantity"}

FirstValueMessage(data) ==
  LET v == data.errors[1]
  IN IF v.arr /\ Len(v.elems) = 0 THEN "" ELSE v.elems[1]

NonEmptyErrors(data) ==
  data.json = "object" /\ data.hasErrors /\ Len(data.errors) > 0

\* a message is present in the first value: a non-empty sequence, or a
\* non-empty string
HasMessage(data) ==
  /\ NonEmptyErrors(data)
  /\ LET v == data.errors[1]
     IN IF v.arr THEN Len(v.elems) > 0 ELSE v.elems[1] # ""

\* C4, as stated: on a response with a non-successful status and a non-empty
\* errors mapping the error area is made visible with the first value of the
\* mapping (its first element if a sequence, else the value itself) and the
\* total shows the dash.
C4_FirstValueShown ==
  [][\A r \in inflight, data \in Bodies :
       JsonResolve(r, FALSE, data) /\ NonEmptyErrors(data)
         => /\ errorDisplay' = "block"
            /\ errorText' = FirstValueMessage(data)
            /\ resultText' = "U+2014"]_vars

\* C4, amended: the same when the first value is a non-empty sequence or a
\* non-empty string (an empty string is no message: "Error" is shown).
C4_FirstMessageShown ==
  [][\A r \in inflight, data \in Bodies :
       JsonResolve(r, FALSE, data) /\ HasMessage(data)
         => /\ errorDisplay' = "block"
            /\ errorText' = FirstValueMessage(data)
            /\ resultText' = "U+2014"]_vars

\* the first message of a mapping of two fields is shown with the dash
C4_Witness ==
  /\ errorDisplay = "block"
  /\ errorText = "Must be positive"
  /\ resultText = "U+2014"
  /\ lastWriter > 0

\* C5: on a response with a non-successful status and no message in the body
\* the error area shows "Error"; after a non-successful response the error
\* area never shows an empty message.
C5_FallbackError ==
  [][\A r \in inflight, data \in Bodies :
       JsonResolve(r, FALSE, data)
         => /\ ~HasMessage(data) => errorText' = "Error"
            /\ errorText' # ""]_vars

\* C6: when fetch rejects, the error area is made visible with "Network
\* error" and the total shows the dash.
C6_RejectedShowsNetworkError ==
  [][\A r \in inflight :
       FetchReject(r) => /\ errorDisplay' = "block"
                         /\ errorText' = "Network error"
                         /\ resultText' = "U+2014"]_vars

\* the only request made was rejected
C6_Witness ==
  /\ nReq = 1
  /\ inflight = {}
  /\ lastWriter = 1
  /\ errorDisplay = "block"
  /\ errorText = "Network error"
  /\ resultText = "U+2014"

\* the error area shows "Network error"
NetworkErrorShown(disp, text) == disp = "block" /\ text = "Network error"

\* C7: "Network error" is shown only when no response was received: once
\* fetch has resolved with a response, whatever its status and body, the
\* recalculation does not end in "Network error".
C7_ResponseNeverNetworkError ==
  [][\A r \in inflight :
       (\/ JsonReject(r)
        \/ \E statusOk \in BOOLEAN, data \in Bodies :
             JsonResolve(r, statusOk, data))
         => ~NetworkErrorShown(errorDisplay', errorText')]_vars

\* C8: on a response with a successful status the total becomes the currency
\* symbol followed by the body's total when the body's ok is true, and the
\* dash when it is not; the error area is neither shown nor written.
C8_SuccessShowsTotal ==
  [][\A r \in inflight, data \in Bodies :
       JsonResolve(r, TRUE, data) /\ data.json = "object"
         => /\ resultText' = IF data.ok
                             THEN "U+20B9" \o ToString(data.total)
                             ELSE "U+2014"
            /\ errorDisplay' = errorDisplay
            /\ errorText' = errorText]_vars

\* the response {ok: true, total: 150} has been rendered, the error area hidden
C8_Witness ==
  /\ resultText = "U+20B9150"
  /\ errorDisplay = "none"
  /\ errorText = ""
  /\ lastWriter = 1
  /\ inflight = {}

\* C9: on a page without pc-product-id the script is inert: after loading and
\* whatever the user does, no handler is bound, no timer is set, no property
\* of a page element is read or written, and no request is made.
C9_InertWithoutProduct ==
  loaded /\ ~present
    => /\ listeners = {}
       /\ timers = {} /\ t = 0 /\ nextId = 1
       /\ ~domRead /\ ~domWritten
       /\ resultText = "" /\ errorText = ""
       /\ nReq = 0 /\ inflight = {} /\ burstLen = 0

\* the page has no product, and the user has edited the quantity and
\* selected a unit
C9_Witness ==
  /\ loaded /\ ~present
  /\ nEvents >= 2
  /\ qty = <<"2">> /\ unit = "g"

\* C10: a click runs updatePrice in the same step, whether or not a timer is
\* pending: the display is reset at once and, for a quantity that passes the
\* check, the request is made at once with the form's values; no time passes
\* and the timers are as they were.
C10_ClickRunsAtOnce ==
  [][ClickRun
       => /\ domWritten'
          /\ errorDisplay' = "none"
          /\ sinceCall' = sinceCall
          /\ timers' = timers
          /\ IF EmptyOrNonPositive(qty)
             THEN resultText' = "Enter valid quantity" /\ nReq' = nReq
             ELSE /\ resultText' = "Calculating..."
                  /\ nReq' = nReq + 1
                  /\ \E x \in inflight' : x.seq = nReq + 1
                  /\ sent' = [product_id |-> productId, quantity |-> qty,
                              unit |-> unit]]_vars

\* a click made while the timer of the binding call was pending has its
\* request in flight before the timer has run
C10_Witness ==
  /\ nEvents = 1
  /\ timers # {}
  /\ burstRuns = 0
  /\ sinceCall < Wait
  /\ nReq = 1
  /\ inflight # {}
  /\ resultText = "Calculating..."

\* every call of debouncedUpdate so far belongs to the burst that the call
\* at binding began: the user has only edited or selected, each time less
\* than Wait after the call before
BindingBurst == burstLen = nEvents + 1

\* C11: binding on a product page calls debouncedUpdate once.  With no user
\* event, and with input or change events that each come within Wait of the
\* call before, updatePrice does not run (nothing is written or requested)
\* while less than Wait has passed since the last call, one timer is pending
\* for that moment, and once Wait has passed it has run exactly once.
C11_InitialRunDebounced ==
  present /\ loaded
    => /\ nEvents = 0 => burstLen = 1
       /\ BindingBurst /\ sinceCall < Wait
            => /\ burstRuns = 0 /\ nReq = 0 /\ ~domWritten
               /\ \E x \in timers : timers = {x} /\ x.left = Wait - sinceCall
       /\ BindingBurst /\ sinceCall = Wait /\ ~NoTimerDue
            => burstRuns = 0 /\ nReq = 0 /\ ~domWritten
       /\ BindingBurst /\ sinceCall >= Wait /\ NoTimerDue
            => burstRuns = 1 /\ nReq <= 1 /\ domWritten /\ timers = {}

\* the call at binding and one edit within Wait of it were run as one:
\* updatePrice has run once, with the edited quantity
C11_Witness ==
  /\ present /\ loaded
  /\ nEvents = 1 /\ burstLen = 2
  /\ sinceCall >= Wait /\ NoTimerDue
  /\ burstRuns = 1 /\ nReq = 1
  /\ sent.quantity = <<"0", ".", "5">>

\* C12: the last call of debouncedUpdate is not dropped: as long as time
\* passes and due timers run, every call that updatePrice has not yet run for
\* is followed by a run of updatePrice after the burst's last call; and once
\* the burst is over and has run, the values of the form, which are those at
\* or after the last call, are the ones that were requested (for a quantity
\* that passes the check).
C12_FinalInputRuns ==
  /\ (burstLen > 0 /\ burstRuns = 0) ~> (BurstOver /\ burstRuns = 1)
  /\ [](BurstOver /\ burstRuns = 1 /\ ~EmptyOrNonPositive(qty)
          => sent = [product_id |-> productId, quantity |-> qty,
                     unit |-> unit])

\* two edits in one burst, and the run after it has requested the second
C12_Witness ==
  /\ burstLen = 3 /\ nEvents = 2
  /\ BurstOver /\ burstRuns = 1
  /\ qty = <<"2">>
  /\ sent.quantity = <<"2">>
  /\ nReq = 1

\* C13: two runs of updatePrice by the debounce timer are at least Wait
\* apart, whatever the input and change events and their timing: when the
\* timer runs updatePrice, the run before it is Wait or more ago.
C13_TimerRunsApart ==
  [][TimerRun => sinceRun >= Wait]_vars

\* the timer has just run updatePrice a second time, for an edit made after
\* its first run
C13_Witness ==
  /\ sinceRun = 0
  /\ nEvents = 1
  /\ qty = <<"0", ".", "5">>
  /\ nReq = 2
  /\ burstLen = 1 /\ burstRuns = 1

\* C14: once the script has written the display, whenever the error area
\* is visible the total shows the dash: never a price, "Calculating..." or
\* "Enter valid quantity" beside an error message.
C14_ErrorOnlyWithDash ==
  domWritten /\ errorDisplay = "block" => resultText = "U+2014"

\* C15: every request made carries a quantity that parses to a number
\* greater than 0, whatever the quantity field holds.
C15_RequestsArePositive ==
  nReq > 0 => Positive(sent.quantity)

\* a step in which an awaiting updatePrice is resumed and finishes
Completion ==
  \E r \in inflight :
    \/ FetchReject(r)
    \/ JsonReject(r)
    \/ \E statusOk \in BOOLEAN, data \in Bodies : JsonResolve(r, statusOk, data)

\* each run of updatePrice makes one request if the quantity passes the
\* check and none if it does not, and nothing else makes a request
OneRequestPerRun ==
  /\ [][RunStep => nReq' = nReq + (IF EmptyOrNonPositive(qty) THEN 0 ELSE 1)]_vars
  /\ [][nReq' # nReq => RunStep]_vars

\* the display shows a failure, so no click has come since it was written;
\* and no input or change event has come at all (only the call at binding
\* has taken a timer handle)
NoEventSinceFailure ==
  /\ errorDisplay = "block" /\ lastWriter > 0
  /\ nextId = 2

\* C16, as stated: no retries, one request per run of updatePrice that
\* passes the check, and after a failure no request until a new input,
\* change or click event.
C16_NoRequestUntilNewEvent ==
  /\ OneRequestPerRun
  /\ [][NoEventSinceFailure /\ nReq' # nReq => ClickRun]_vars

\* C16, amended: no retries, one request per run of updatePrice that passes
\* the check; the completion of a request, failed or not, makes no request
\* and sets no timer.  (A timer set before the failure may still run
\* updatePrice after it.)
C16_NoRetry ==
  /\ OneRequestPerRun
  /\ [][Completion => nReq' = nReq /\ sent' = sent /\ timers' = timers
                      /\ Cardinality(inflight') = Cardinality(inflight) - 1]_vars

\* the only request failed, and long after nothing else has been requested
C16_Witness ==
  /\ nReq = 1 /\ lastWriter = 1
  /\ inflight = {} /\ timers = {}
  /\ errorDisplay = "block" /\ resultText = "U+2014"
  /\ sinceCall = ClockCap

\* C17: a click on the button leaves the debouncer as it is, the pending
\* timer and its deadline included, and runs updatePrice by itself; the
\* timer's run comes on top of it, and each of the two makes a request when
\* the quantity passes the check.
C17_ClickKeepsTimer ==
  /\ [][ClickRun => /\ timers' = timers /\ t' = t /\ nextId' = nextId
                    /\ sinceCall' = sinceCall
                    /\ burstLen' = burstLen /\ burstRuns' = burstRuns]_vars
  /\ [][ClickRun /\ ~EmptyOrNonPositive(qty)
          => nReq' = nReq + 1 /\ sent' = Params(qty, unit)]_vars
  /\ [][TimerRun /\ ~EmptyOrNonPositive(qty)
          => nReq' = nReq + 1 /\ sent' = Params(qty, unit)]_vars

\* the quantity was edited to 0.5 within Wait of binding and the button
\* clicked after that: the click's request is out and the timer of the edit
\* is still pending
C17_Witness ==
  /\ nEvents = 2 /\ burstLen = 2 /\ burstRuns = 0
  /\ nReq = 1 /\ sent.quantity = <<"0", ".", "5">>
  /\ \E x \in timers : x.left > 0 /\ x.left = Wait - sinceCall

\* C18: whenever the total shows "Calculating...", a request is in flight.
C18_CalculatingHasRequest ==
  resultText = CALCULATING => inflight # {}

C18_Witness ==
  /\ resultText = CALCULATING
  /\ Cardinality(inflight) = 2
  /\ nReq = 2

\* C19: at most one timer is pending; it is the one whose handle t holds, and
\* its deadline is Wait after the latest call of the debounced function.
C19_OneTimerPending ==
  /\ Cardinality(timers) <= 1
  /\ \A x \in timers : x.id = t /\ x.left = Wait - sinceCall

\* the third call of a burst has replaced the timer, which has run down by
\* one step
C19_Witness ==
  /\ burstLen = 3 /\ nextId = 4
  /\ \E x \in timers : timers = {x} /\ x.id = 3 /\ x.left = Wait - Step
  /\ sinceCall = Step

====
